---------------------------- MODULE Spec2Model ----------------------------
(***************************************************************************)
(* XenLearn: the JSON-file managers of the learning platform               *)
(* (AuthManager, FileUserManager, CourseManager, ProgressTracker) and the  *)
(* enrollment table of DatabaseManager, as a state machine.                *)
(*                                                                         *)
(* The managers keep disjoint stores (one JSON file or table each) and no  *)
(* operation of one manager writes another manager's store, so a behaviour *)
(* exercises one manager: `focus` names it and is fixed by Init.           *)
(*                                                                         *)
(* Identifiers str(uuid.uuid4()) are modelled as fresh integers drawn from *)
(* the counter nextId.  Python's None is the string "None".                *)
(***************************************************************************)
EXTENDS Integers, Sequences, FiniteSets, TLC

VARIABLES
    focus,            \* the manager this behaviour exercises
    faults,           \* how many more file writes the environment may fail
    today,            \* the calendar day datetime.now() falls on
    nextId,           \* the next value uuid.uuid4() yields
    ret,              \* the last call: its operation and what it handed back
    users,            \* AuthManager.users (username -> user record)
    usersFile,        \* data/users.json as AuthManager wrote it
    fileUsers,        \* the users.json of FileUserManager (user_id -> record)
    enrollments,      \* CourseManager.enrollments (user_id -> list of course ids)
    enrollmentsFile,  \* data/enrollments.json
    user_progress,    \* ProgressTracker.user_progress (user_id -> progress record)
    progressFile,     \* data/user_progress.json
    user_achievements,\* ProgressTracker.achievements_data['user_achievements']
    achievementsFile, \* data/achievements.json (its user_achievements part)
    session_user,     \* the user id the caller passes to the ProgressTracker
    engine,           \* DatabaseManager.engine: "none" or "up"
    dbEnrollments,    \* rows of the enrollments table, as (user_id, course_id)
    quizzes,          \* QuizGenerator.quizzes (quiz_id -> quiz)
    quizzesFile,      \* data/quizzes.json
    courses,          \* CourseManager.courses, in the order of the dict
    user_interactions,     \* AIEngine.user_interactions (user_id -> interactions)
    recommendations_cache, \* AIEngine.recommendations_cache (user_id -> entry)
    recommendationsFile,   \* data/ai_recommendations.json
    activeDays,       \* the days on which update_daily_activity was called
    otherUsers        \* AuthManager.users of a second session's AuthManager

authVars     == <<users, usersFile>>
courseVars   == <<enrollments, enrollmentsFile>>
progressVars == <<user_progress, progressFile, user_achievements, achievementsFile>>
dbVars       == <<engine, dbEnrollments>>
quizVars     == <<quizzes, quizzesFile>>
recVars      == <<courses, user_interactions, recommendations_cache,
                 recommendationsFile>>
restVars     == <<quizVars, recVars, activeDays, otherUsers>>
vars == <<focus, faults, today, nextId, ret, users, usersFile, fileUsers,
          enrollments, enrollmentsFile, user_progress, progressFile,
          user_achievements, achievementsFile, session_user, engine,
          dbEnrollments, quizzes, quizzesFile, courses, user_interactions,
          recommendations_cache, recommendationsFile, activeDays, otherUsers>>

(***************************************************************************)
(* Bounds and input domains.                                               *)
(***************************************************************************)
MaxFaults == 1
MaxDay == 1
MaxStreakDay == 6        \* the last day of a behaviour that studies daily
MaxStudyMinutes == 20    \* the most minutes logged on one day

Usernames   == {"alice", "bob"}
Emails      == {"a@x", "b@x"}
Passwords   == {"pw1", "pw2"}
NoPassword  == {"", "None"}          \* new_password left empty, or the default None
Preferences == {"visual", "mixed"}
UserIdArgs  == {1, 2}

None == "None"

(***************************************************************************)
(* Python values.                                                          *)
(***************************************************************************)
EmptyDict == <<>>

\* d[k] = v
SetItem(d, k, v) == (k :> v) @@ d

\* del d[k]
DelItem(d, k) == [f \in (DOMAIN d) \ {k} |-> d[f]]

\* datetime.now().isoformat() where the program reads the value back
\* (ProgressTracker's last_activity): the day it falls on
Now == ToString(today)

\* datetime.now().isoformat() where the value is stored and never read by the
\* program (created_at, last_login, updated_at, deactivated_at, an
\* achievement's date): some timestamp
Timestamp == "ts"

\* What a call hands back to its caller.
NoneV    == [kind |-> "None"]
BoolV(b) == [kind |-> "bool", b |-> b]
UserV(u) == [kind |-> "user", user |-> u]
ListV(s) == [kind |-> "list", items |-> s]
RaisedV  == [kind |-> "raised"]       \* an exception reached the caller

Call(op, val) == [op |-> op, val |-> val]

\* The last call with the arguments it was given.
CallWith(op, args, val) == [op |-> op, args |-> args, val |-> val]

(***************************************************************************)
(* The file system.  A file is readable with some content, missing, or     *)
(* unreadable (garbled JSON).  open(path, 'w') followed by json.dump       *)
(* either succeeds, or fails before the file is touched, or fails after    *)
(* open() truncated it, leaving it garbled.                                *)
(***************************************************************************)
FileOk(data) == [st |-> "ok", data |-> data]
Missing      == [st |-> "missing", data |-> EmptyDict]
Corrupt      == [st |-> "corrupt", data |-> EmptyDict]

WriteFile(old, data, budget) ==
    {[file |-> FileOk(data), failed |-> FALSE, budget |-> budget]}
    \cup (IF budget > 0
          THEN {[file |-> old, failed |-> TRUE, budget |-> budget - 1],
                [file |-> Corrupt, failed |-> TRUE, budget |-> budget - 1]}
          ELSE {})

\* The writes of one operation, in order: snaps are the contents written.
RECURSIVE WriteAll(_, _, _)
WriteAll(old, snaps, budget) ==
    IF snaps = <<>>
    THEN {[file |-> old, budget |-> budget]}
    ELSE UNION {WriteAll(w.file, Tail(snaps), w.budget) :
                    w \in WriteFile(old, Head(snaps), budget)}

\* hashlib.sha256(password.encode()).hexdigest(): one digest per password
_hash_password(password) ==
    CASE password = "pw1" -> "0b14"
      [] password = "pw2" -> "6cf6"
      [] password = ""    -> "e3b0"
      [] OTHER            -> "dc93"

(***************************************************************************)
(* AuthManager                                                             *)
(***************************************************************************)
\* Variant without the copy: the field is deleted from the stored dict.
ReturnUserAliased(user_data) ==
    [stored   |-> DelItem(user_data, "password_hash"),
     returned |-> DelItem(user_data, "password_hash")]
\* user_return = user_data.copy(); del user_return['password_hash']
ReturnUser(user_data) ==
    [stored   |-> user_data,
     returned |-> DelItem(user_data, "password_hash")]

\* for username, user_data in self.users.items(): if user_data['user_id'] == user_id
UsersWithId(user_id) == {u \in DOMAIN users : users[u].user_id = user_id}

\* AuthManager._save_users: the exception of a failed write is swallowed
SaveUsers(data) ==
    \E w \in WriteFile(usersFile, data, faults) :
        /\ usersFile' = w.file
        /\ faults' = w.budget

UsernameTakenNever(username) == FALSE
UsernameTaken(username) == username \in DOMAIN users

CreateUser(username, email, password, preferences) ==
    /\ focus = "auth"
    /\ IF UsernameTaken(username)
       THEN /\ ret' = Call("create_user", NoneV)
            /\ UNCHANGED <<users, usersFile, faults, nextId>>
       ELSE LET user_data == [user_id       |-> nextId,
                              username      |-> username,
                              email         |-> email,
                              password_hash |-> _hash_password(password),
                              preferences   |-> preferences,
                              created_at    |-> Timestamp,
                              last_login    |-> None,
                              is_active     |-> TRUE]
                r == ReturnUser(user_data)
            IN /\ nextId' = nextId + 1
               /\ SaveUsers(SetItem(users, username, user_data))
               /\ users' = SetItem(users, username, r.stored)
               /\ ret' = Call("create_user", UserV(r.returned))
    /\ UNCHANGED <<focus, today, fileUsers, courseVars, progressVars,
                   session_user, dbVars, restVars>>

\* if user_data['password_hash'] == hashed_password and user_data['is_active']
CredentialsIgnoreActive(user_data, password) ==
    user_data.password_hash = _hash_password(password)
CredentialsOk(user_data, password) ==
    /\ user_data.password_hash = _hash_password(password)
    /\ user_data.is_active

\* AuthManager.authenticate_user on the store `store`: the store after the
\* call, what was handed to _save_users (if anything), and the result
authenticate_user(store, username, password) ==
    IF username \notin DOMAIN store
    THEN [store |-> store, saved |-> <<>>, val |-> NoneV]
    ELSE IF CredentialsOk(store[username], password)
    THEN LET user_data == [store[username] EXCEPT !.last_login = Timestamp]
             r == ReturnUser(user_data)
         IN [store |-> SetItem(store, username, r.stored),
             saved |-> <<SetItem(store, username, user_data)>>,
             val   |-> UserV(r.returned)]
    ELSE [store |-> store, saved |-> <<>>, val |-> NoneV]

AuthenticateUser(username, password) ==
    /\ focus = "auth"
    /\ LET r == authenticate_user(users, username, password)
       IN /\ users' = r.store
          /\ \E w \in WriteAll(usersFile, r.saved, faults) :
                 /\ usersFile' = w.file
                 /\ faults' = w.budget
          /\ ret' = Call("authenticate_user", r.val)
    /\ UNCHANGED <<focus, today, nextId, fileUsers, courseVars, progressVars,
                   session_user, dbVars, restVars>>

UpdateUserPreferences(user_id, preferences) ==
    /\ focus = "auth"
    /\ IF UsersWithId(user_id) = {}
       THEN /\ ret' = Call("update_user_preferences", BoolV(FALSE))
            /\ UNCHANGED <<users, usersFile, faults>>
       ELSE LET username == CHOOSE u \in UsersWithId(user_id) : TRUE
                user_data == SetItem([users[username] EXCEPT !.preferences = preferences],
                                     "updated_at", Timestamp)
            IN /\ users' = SetItem(users, username, user_data)
               /\ SaveUsers(users')
               /\ ret' = Call("update_user_preferences", BoolV(TRUE))
    /\ UNCHANGED <<focus, today, nextId, fileUsers, courseVars, progressVars,
                   session_user, dbVars, restVars>>

\* if self._hash_password(current_password) != user_data['password_hash']: return False
PasswordVerifiedAlways(user_data, current_password) == TRUE
PasswordVerified(user_data, current_password) ==
    _hash_password(current_password) = user_data.password_hash

\* if new_password: user_data['password_hash'] = self._hash_password(new_password)
NewHashKeepsOld(user_data, new_password) == user_data.password_hash
NewHash(user_data, new_password) ==
    IF new_password \in NoPassword
    THEN user_data.password_hash
    ELSE _hash_password(new_password)

UpdateUserAccount(user_id, email, current_password, new_password) ==
    /\ focus = "auth"
    /\ IF UsersWithId(user_id) = {}
       THEN /\ ret' = Call("update_user_account", BoolV(FALSE))
            /\ UNCHANGED <<users, usersFile, faults>>
       ELSE LET username == CHOOSE u \in UsersWithId(user_id) : TRUE
                old == users[username]
            IN IF ~PasswordVerified(old, current_password)
               THEN /\ ret' = Call("update_user_account", BoolV(FALSE))
                    /\ UNCHANGED <<users, usersFile, faults>>
               ELSE LET user_data ==
                          SetItem([old EXCEPT !.email = email,
                                              !.password_hash = NewHash(old, new_password)],
                                  "updated_at", Timestamp)
                    IN /\ users' = SetItem(users, username, user_data)
                       /\ SaveUsers(users')
                       /\ ret' = Call("update_user_account", BoolV(TRUE))
    /\ UNCHANGED <<focus, today, nextId, fileUsers, courseVars, progressVars,
                   session_user, dbVars, restVars>>

GetUserById(user_id) ==
    /\ focus = "auth"
    /\ IF UsersWithId(user_id) = {}
       THEN /\ ret' = Call("get_user_by_id", NoneV)
            /\ users' = users
       ELSE LET username == CHOOSE u \in UsersWithId(user_id) : TRUE
                r == ReturnUser(users[username])
            IN /\ users' = SetItem(users, username, r.stored)
               /\ ret' = Call("get_user_by_id", UserV(r.returned))
    /\ UNCHANGED <<focus, faults, today, nextId, usersFile, fileUsers, courseVars,
                   progressVars, session_user, dbVars, restVars>>

DeactivatedStaysActive(user_data) == user_data
Deactivated(user_data) ==
    SetItem([user_data EXCEPT !.is_active = FALSE], "deactivated_at", Timestamp)

DeactivateUser(user_id) ==
    /\ focus = "auth"
    /\ IF UsersWithId(user_id) = {}
       THEN /\ ret' = Call("deactivate_user", BoolV(FALSE))
            /\ UNCHANGED <<users, usersFile, faults>>
       ELSE LET username == CHOOSE u \in UsersWithId(user_id) : TRUE
            IN /\ users' = SetItem(users, username, Deactivated(users[username]))
               /\ SaveUsers(users')
               /\ ret' = Call("deactivate_user", BoolV(TRUE))
    /\ UNCHANGED <<focus, today, nextId, fileUsers, courseVars, progressVars,
                   session_user, dbVars, restVars>>

AuthNext ==
    \/ \E u \in Usernames, e \in Emails, p \in Passwords, pr \in Preferences :
           CreateUser(u, e, p, pr)
    \/ \E u \in Usernames, p \in Passwords : AuthenticateUser(u, p)
    \/ \E id \in UserIdArgs, pr \in Preferences : UpdateUserPreferences(id, pr)
    \/ \E id \in UserIdArgs, e \in Emails, cur \in Passwords,
          new \in Passwords \cup NoPassword : UpdateUserAccount(id, e, cur, new)
    \/ \E id \in UserIdArgs : GetUserById(id)
    \/ \E id \in UserIdArgs : DeactivateUser(id)

(***************************************************************************)
(* FileUserManager: every operation reads the file and writes it back.     *)
(***************************************************************************)
\* file_user_manager._load_users: any failure to read yields {}
LoadFileUsers == IF fileUsers.st = "ok" THEN fileUsers.data ELSE EmptyDict

\* for user in users.values(): if user['username'] == username: return None
FileUsernameTakenNever(store, username) == FALSE
FileUsernameTaken(store, username) ==
    \E id \in DOMAIN store : store[id].username = username

\* file_user_manager._save_users has no exception guard: a failed write
\* reaches the caller of the operation, whose result is then never returned.
FileSave(data, op, val) ==
    \E w \in WriteFile(fileUsers, data, faults) :
        /\ fileUsers' = w.file
        /\ faults' = w.budget
        /\ ret' = Call(op, IF w.failed THEN RaisedV ELSE val)

FileCreateUser(username, email, password, preferences) ==
    /\ focus = "file"
    /\ LET store == LoadFileUsers
       IN IF FileUsernameTaken(store, username)
          THEN /\ ret' = Call("create_user", NoneV)
               /\ UNCHANGED <<fileUsers, faults, nextId>>
          ELSE LET user == [user_id       |-> nextId,
                            username      |-> username,
                            email         |-> email,
                            password_hash |-> _hash_password(password),
                            preferences   |-> preferences,
                            created_at    |-> Timestamp]
               IN /\ nextId' = nextId + 1
                  /\ FileSave(SetItem(store, nextId, user),
                              "create_user", UserV(user))
    /\ UNCHANGED <<focus, today, authVars, courseVars, progressVars,
                   session_user, dbVars, restVars>>

FileAuthenticateUser(username, password) ==
    /\ focus = "file"
    /\ LET store == LoadFileUsers
           hits == {id \in DOMAIN store :
                       /\ store[id].username = username
                       /\ store[id].password_hash = _hash_password(password)}
       IN ret' = Call("authenticate_user", IF hits = {} THEN NoneV
                      ELSE UserV(store[CHOOSE id \in hits : TRUE]))
    /\ UNCHANGED <<focus, faults, today, nextId, fileUsers, authVars, courseVars,
                   progressVars, session_user, dbVars, restVars>>

FileUpdateUserPreferences(user_id, preferences) ==
    /\ focus = "file"
    /\ LET store == LoadFileUsers
       IN IF user_id \in DOMAIN store
          THEN FileSave([store EXCEPT ![user_id].preferences = preferences],
                        "update_user_preferences", BoolV(TRUE))
          ELSE /\ ret' = Call("update_user_preferences", BoolV(FALSE))
               /\ UNCHANGED <<fileUsers, faults>>
    /\ UNCHANGED <<focus, today, nextId, authVars, courseVars, progressVars,
                   session_user, dbVars, restVars>>

FileUpdateUserAccount(user_id, email, current_password, new_password) ==
    /\ focus = "file"
    /\ LET store == LoadFileUsers
       IN IF user_id \notin DOMAIN store
          THEN /\ ret' = Call("update_user_account", BoolV(FALSE))
               /\ UNCHANGED <<fileUsers, faults>>
          ELSE IF ~PasswordVerified(store[user_id], current_password)
          THEN /\ ret' = Call("update_user_account", BoolV(FALSE))
               /\ UNCHANGED <<fileUsers, faults>>
          ELSE FileSave([store EXCEPT
                            ![user_id].email = email,
                            ![user_id].password_hash = NewHash(store[user_id], new_password)],
                        "update_user_account", BoolV(TRUE))
    /\ UNCHANGED <<focus, today, nextId, authVars, courseVars, progressVars,
                   session_user, dbVars, restVars>>

FileNext ==
    \/ \E u \in Usernames, e \in Emails, p \in Passwords, pr \in Preferences :
           FileCreateUser(u, e, p, pr)
    \/ \E u \in Usernames, p \in Passwords : FileAuthenticateUser(u, p)
    \/ \E id \in UserIdArgs, pr \in Preferences : FileUpdateUserPreferences(id, pr)
    \/ \E id \in UserIdArgs, e \in Emails, cur \in Passwords,
          new \in Passwords \cup NoPassword : FileUpdateUserAccount(id, e, cur, new)

(***************************************************************************)
(* The course catalog (CourseManager.courses): course id -> lesson ids.    *)
(* Nothing adds or removes a course after construction.                    *)
(***************************************************************************)
Catalog == ("c1" :> <<"l1", "l2">>) @@ ("c2" :> <<"l1">>)

CourseIdArgs == {"c1", "c2", "zz"}     \* "zz" is in no catalog
TrackedCourseArgs == {"c1", "zz"}      \* the course ids handed to the tracker
LessonIdArgs == {"l1", "l2"}
TimeSpentArgs == {0, 5}

\* CourseManager.get_course_lessons
get_course_lessons(course_id) ==
    IF course_id \in DOMAIN Catalog THEN Catalog[course_id] ELSE <<>>

\* x in list
InList(x, list) == \E i \in 1..Len(list) : list[i] = x

(***************************************************************************)
(* CourseManager                                                           *)
(***************************************************************************)
\* if course_id in self.enrollments[user_id]: return False
AlreadyEnrolledNever(list, course_id) == FALSE
AlreadyEnrolled(list, course_id) == InList(course_id, list)

EnrollUser(user_id, course_id) ==
    /\ focus = "course"
    /\ LET withUser == IF user_id \in DOMAIN enrollments
                       THEN enrollments
                       ELSE SetItem(enrollments, user_id, <<>>)
       IN IF AlreadyEnrolled(withUser[user_id], course_id)
          THEN /\ ret' = Call("enroll_user", BoolV(FALSE))
               /\ UNCHANGED <<enrollments, enrollmentsFile, faults>>
          ELSE /\ enrollments' = [withUser EXCEPT ![user_id] = Append(@, course_id)]
               /\ \E w \in WriteFile(enrollmentsFile, enrollments', faults) :
                      /\ enrollmentsFile' = w.file
                      /\ faults' = w.budget
               /\ ret' = Call("enroll_user", BoolV(TRUE))
    /\ UNCHANGED <<focus, today, nextId, authVars, fileUsers, progressVars,
                   session_user, dbVars, restVars>>

GetUserEnrollments(user_id) ==
    /\ focus = "course"
    /\ ret' = Call("get_user_enrollments",
                   ListV(IF user_id \in DOMAIN enrollments
                         THEN enrollments[user_id] ELSE <<>>))
    /\ UNCHANGED <<focus, faults, today, nextId, authVars, fileUsers, courseVars,
                   progressVars, session_user, dbVars, restVars>>

CourseNext ==
    \/ \E id \in UserIdArgs, c \in CourseIdArgs : EnrollUser(id, c)
    \/ \E id \in UserIdArgs : GetUserEnrollments(id)

(***************************************************************************)
(* DatabaseManager: the enrollments table.  Its user_id and course_id      *)
(* columns REFERENCE the users and courses tables and (user_id, course_id) *)
(* is UNIQUE; a statement that fails raises inside execute_update, which   *)
(* returns False.                                                          *)
(***************************************************************************)
DbUsers   == {1}
DbCourses == DOMAIN Catalog

\* INSERT INTO enrollments ... ON CONFLICT (user_id, course_id) DO NOTHING
InsertOnConflictDoNothing(rows, row) ==
    IF InList(row, rows) THEN rows ELSE Append(rows, row)

DbEnrollUser(user_id, course_id) ==
    /\ focus = "db"
    /\ IF engine = "none" \/ user_id \notin DbUsers \/ course_id \notin DbCourses
       THEN /\ ret' = Call("db_enroll_user", BoolV(FALSE))
            /\ dbEnrollments' = dbEnrollments
       ELSE /\ dbEnrollments' =
                   InsertOnConflictDoNothing(dbEnrollments, <<user_id, course_id>>)
            /\ ret' = Call("db_enroll_user", BoolV(TRUE))
    /\ UNCHANGED <<focus, faults, today, nextId, authVars, fileUsers, courseVars,
                   progressVars, session_user, engine, restVars>>

DbGetUserEnrollments(user_id) ==
    /\ focus = "db"
    /\ ret' = Call("db_get_user_enrollments",
                   ListV(IF engine = "none" THEN <<>>
                         ELSE SelectSeq(dbEnrollments, LAMBDA r : r[1] = user_id)))
    /\ UNCHANGED <<focus, faults, today, nextId, authVars, fileUsers, courseVars,
                   progressVars, session_user, dbVars, restVars>>

DbNext ==
    \/ \E id \in UserIdArgs, c \in CourseIdArgs : DbEnrollUser(id, c)
    \/ \E id \in UserIdArgs : DbGetUserEnrollments(id)

(***************************************************************************)
(* ProgressTracker.  An operation is a function of the tracker's memory    *)
(*   t = [p |-> user_progress, a |-> user_achievements,                    *)
(*        psaves, asaves |-> the contents _save_progress and               *)
(*                           _save_achievements wrote so far, in order]    *)
(* and the action then performs the writes.                                *)
(***************************************************************************)
LessonPoints == 20
CompletionBonus == 500
PointsPerLevel == 1000
DailyGoalMinutes == 30
SpeedLearnerCourses == 3

\* ProgressTracker._initialize_achievements: the points of each definition
AchievementPoints ==
    ("first_course" :> 50) @@ ("first_completion" :> 100) @@ ("week_streak" :> 150)
    @@ ("quiz_master" :> 200) @@ ("speed_learner" :> 300)

NewProgress ==
    [enrolled_courses            |-> <<>>,
     completed_courses           |-> <<>>,
     completed_lessons           |-> 0,
     total_points                |-> 0,
     level                       |-> 1,
     streak_days                 |-> 0,
     time_studied_today          |-> 0,
     daily_goal_minutes          |-> DailyGoalMinutes,
     course_progress             |-> EmptyDict,
     completed_lessons_by_course |-> EmptyDict,
     time_spent_by_course        |-> EmptyDict,
     last_activity               |-> None,
     created_at                  |-> Timestamp]

Tracker == [p |-> user_progress, a |-> user_achievements,
            psaves |-> <<>>, asaves |-> <<>>]

\* self._save_progress()
SavedProgress(t) == [t EXCEPT !.psaves = Append(@, t.p)]

\* ProgressTracker.get_user_progress
get_user_progress(t, user_id) ==
    IF user_id \in DOMAIN t.p
    THEN t
    ELSE SavedProgress([t EXCEPT !.p = SetItem(@, user_id, NewProgress)])

\* ProgressTracker._award_achievement
_award_achievement(t, user_id, achievement_id) ==
    LET a1 == IF user_id \in DOMAIN t.a THEN t.a ELSE SetItem(t.a, user_id, <<>>)
        held == \E i \in 1..Len(a1[user_id]) :
                    a1[user_id][i].achievement_id = achievement_id
    IN IF held \/ achievement_id \notin DOMAIN AchievementPoints
       THEN [t EXCEPT !.a = a1]
       ELSE LET record == [achievement_id |-> achievement_id,
                           points         |-> AchievementPoints[achievement_id],
                           date           |-> Timestamp]
                a2 == [a1 EXCEPT ![user_id] = Append(@, record)]
                t1 == get_user_progress([t EXCEPT !.a = a2], user_id)
                t2 == [t1 EXCEPT !.p[user_id].total_points =
                                     @ + AchievementPoints[achievement_id]]
            IN SavedProgress([t2 EXCEPT !.asaves = Append(@, a2)])

\* ... and course_id not in progress['completed_courses']
CourseCompletedNever(list, course_id) == FALSE
CourseCompleted(list, course_id) == InList(course_id, list)

\* ProgressTracker._update_course_progress
_update_course_progress(t, user_id, course_id) ==
    LET lessons == get_course_lessons(course_id)
    IN IF lessons = <<>>
       THEN t
       ELSE LET t1 == get_user_progress(t, user_id)
                pr == t1.p[user_id]
                completed == IF course_id \in DOMAIN pr.completed_lessons_by_course
                             THEN pr.completed_lessons_by_course[course_id]
                             ELSE <<>>
                \* (len(completed) / len(lessons)) * 100, rounded down
                pct == (Len(completed) * 100) \div Len(lessons)
                pr1 == [pr EXCEPT !.course_progress =
                                      SetItem(@, course_id, IF pct < 100 THEN pct ELSE 100)]
                t2 == [t1 EXCEPT !.p[user_id] = pr1]
            IN IF Len(completed) >= Len(lessons)
                  /\ ~CourseCompleted(pr1.completed_courses, course_id)
               THEN _award_achievement(
                        [t2 EXCEPT !.p[user_id].completed_courses = Append(@, course_id),
                                   !.p[user_id].total_points = @ + CompletionBonus],
                        user_id, "first_completion")
               ELSE t2

\* ProgressTracker._check_achievements
_check_achievements(t, user_id) ==
    LET t1 == get_user_progress(t, user_id)
    IN IF Len(t1.p[user_id].completed_courses) >= SpeedLearnerCourses
       THEN _award_achievement(t1, user_id, "speed_learner")
       ELSE t1

\* if lesson_id not in progress['completed_lessons_by_course'][course_id]
LessonDoneNever(list, lesson_id) == FALSE
LessonDone(list, lesson_id) == InList(lesson_id, list)

\* ProgressTracker.complete_lesson: the tracker after the call and its result

complete_lesson(t, user_id, course_id, lesson_id, time_spent) ==
    LET t1 == get_user_progress(t, user_id)
        pr == t1.p[user_id]
        byCourse == IF course_id \in DOMAIN pr.completed_lessons_by_course
                    THEN pr.completed_lessons_by_course
                    ELSE SetItem(pr.completed_lessons_by_course, course_id, <<>>)
    IN IF LessonDone(byCourse[course_id], lesson_id)
       THEN [t |-> [t1 EXCEPT !.p[user_id].completed_lessons_by_course = byCourse],
             result |-> FALSE]
       ELSE LET spent == IF course_id \in DOMAIN pr.time_spent_by_course
                         THEN pr.time_spent_by_course[course_id] ELSE 0
                pr1 == [pr EXCEPT
                          !.completed_lessons_by_course =
                              [byCourse EXCEPT ![course_id] = Append(@, lesson_id)],
                          !.completed_lessons = @ + 1,
                          !.total_points = @ + LessonPoints,
                          !.time_spent_by_course =
                              IF time_spent > 0
                              THEN SetItem(@, course_id, spent + time_spent) ELSE @,
                          !.time_studied_today =
                              IF time_spent > 0 THEN @ + time_spent ELSE @]
                t2 == _update_course_progress([t1 EXCEPT !.p[user_id] = pr1],
                                              user_id, course_id)
                t3 == _check_achievements(t2, user_id)
                pr3 == t3.p[user_id]
                new_level == (pr3.total_points \div PointsPerLevel) + 1
                pr4 == [pr3 EXCEPT !.last_activity = Now,
                                   !.level = IF new_level > @ THEN new_level ELSE @]
            IN [t |-> SavedProgress([t3 EXCEPT !.p[user_id] = pr4]),
                result |-> TRUE]

\* ProgressTracker.enroll_in_course: the tracker after the call and its result
enroll_in_course(t, user_id, course_id) ==
    LET t1 == get_user_progress(t, user_id)
        pr == t1.p[user_id]
    IN IF AlreadyEnrolled(pr.enrolled_courses, course_id)
       THEN [t |-> t1, result |-> FALSE]
       ELSE LET pr1 == [pr EXCEPT
                          !.enrolled_courses = Append(@, course_id),
                          !.course_progress = SetItem(@, course_id, 0),
                          !.completed_lessons_by_course = SetItem(@, course_id, <<>>),
                          !.time_spent_by_course = SetItem(@, course_id, 0)]
                t2 == [t1 EXCEPT !.p[user_id] = pr1]
                t3 == IF Len(pr1.enrolled_courses) = 1
                      THEN _award_achievement(t2, user_id, "first_course")
                      ELSE t2
            IN [t |-> SavedProgress(t3), result |-> TRUE]

\* The tracker's memory after an operation, and the files after its writes.
Commit(t) ==
    /\ user_progress' = t.p
    /\ user_achievements' = t.a
    /\ \E wp \in WriteAll(progressFile, t.psaves, faults) :
       \E wa \in WriteAll(achievementsFile, t.asaves, wp.budget) :
           /\ progressFile' = wp.file
           /\ achievementsFile' = wa.file
           /\ faults' = wa.budget

GetUserProgress ==
    /\ focus = "progress"
    /\ LET t == get_user_progress(Tracker, session_user)
       IN /\ Commit(t)
          /\ ret' = Call("get_user_progress", UserV(t.p[session_user]))
    /\ UNCHANGED <<focus, today, nextId, authVars, fileUsers, courseVars,
                   session_user, dbVars, restVars>>

CompleteLesson(course_id, lesson_id, time_spent) ==
    /\ focus = "progress"
    /\ LET r == complete_lesson(Tracker, session_user, course_id, lesson_id, time_spent)
       IN /\ Commit(r.t)
          /\ ret' = Call("complete_lesson", BoolV(r.result))
    /\ UNCHANGED <<focus, today, nextId, authVars, fileUsers, courseVars,
                   session_user, dbVars, restVars>>

EnrollInCourse(course_id) ==
    /\ focus = "progress"
    /\ LET r == enroll_in_course(Tracker, session_user, course_id)
       IN /\ Commit(r.t)
          /\ ret' = Call("enroll_in_course", BoolV(r.result))
    /\ UNCHANGED <<focus, today, nextId, authVars, fileUsers, courseVars,
                   session_user, dbVars, restVars>>

\* datetime.fromisoformat(last_activity).date(): the day of a timestamp
DayOf(timestamp) == CHOOSE d \in 0..(MaxStreakDay + 1) : ToString(d) = timestamp

\* if progress['streak_days'] >= 7
WeekStreakDays == 7
StudyMinuteArgs == {10}

\* ProgressTracker._update_learning_streak
_update_learning_streak(t, user_id) ==
    LET t1 == get_user_progress(t, user_id)
        pr == t1.p[user_id]
    IN IF pr.last_activity = None
       THEN [t1 EXCEPT !.p[user_id].streak_days = 1]
       ELSE LET days_diff == today - DayOf(pr.last_activity)
            IN IF days_diff = 0
               THEN t1
               ELSE IF days_diff = 1
               THEN LET t2 == [t1 EXCEPT !.p[user_id].streak_days = @ + 1]
                    IN IF t2.p[user_id].streak_days >= WeekStreakDays
                       THEN _award_achievement(t2, user_id, "week_streak")
                       ELSE t2
               ELSE [t1 EXCEPT !.p[user_id].streak_days = 1]

\* ProgressTracker.update_daily_activity: the tracker after the call
update_daily_activity(t, user_id, minutes_studied) ==
    LET t1 == get_user_progress(t, user_id)
        pr == t1.p[user_id]
        pr1 == IF pr.last_activity # None /\ today # DayOf(pr.last_activity)
               THEN [pr EXCEPT !.time_studied_today = 0]
               ELSE pr
        pr2 == [pr1 EXCEPT !.time_studied_today = @ + minutes_studied,
                           !.last_activity = Now]
    IN SavedProgress(_update_learning_streak([t1 EXCEPT !.p[user_id] = pr2],
                                             user_id))

UpdateDailyActivity(minutes_studied) ==
    /\ focus = "streak"
    /\ LET t == update_daily_activity(Tracker, session_user, minutes_studied)
       IN /\ t.p[session_user].time_studied_today <= MaxStudyMinutes
          /\ Commit(t)
          /\ ret' = Call("update_daily_activity", NoneV)
    /\ activeDays' = activeDays \cup {today}
    /\ UNCHANGED <<focus, today, nextId, authVars, fileUsers, courseVars,
                   session_user, dbVars, quizVars, recVars, otherUsers>>

StreakNext == \E m \in StudyMinuteArgs : UpdateDailyActivity(m)

\* The calendar moves on to the next day.
NextDay ==
    /\ focus \in {"progress", "streak"}
    /\ today < (IF focus = "streak" THEN MaxStreakDay ELSE MaxDay)
    /\ today' = today + 1
    /\ ret' = Call("next_day", NoneV)
    /\ UNCHANGED <<focus, faults, nextId, authVars, fileUsers, courseVars,
                   progressVars, session_user, dbVars, restVars>>

ProgressNext ==
    \/ GetUserProgress
    \/ \E c \in TrackedCourseArgs, l \in LessonIdArgs, m \in TimeSpentArgs :
           CompleteLesson(c, l, m)
    \/ \E c \in TrackedCourseArgs : EnrollInCourse(c)
    \/ NextDay

(***************************************************************************)
(* QuizGenerator.generate_quiz.  The environment supplies OPENAI_API_KEY   *)
(* and what the completion call does: it raises (no openai module, no      *)
(* network, a refused key), or answers with text that is not JSON, JSON    *)
(* that is not an object, or an object with questions.                     *)
(***************************************************************************)
MaxQuizzes == 2

ApiKeys         == {None, "", "sk"}
LlmReplies      == {"raises", "bad_json", "not_object", "questions"}
TopicArgs       == {"Python", "Art", None}
DifficultyArgs  == {"Easy"}
NumQuestionArgs == {1, 3}
QuizTypeArgs    == {"Multiple Choice", "Mixed"}

QuizV(q) == [kind |-> "quiz", quiz |-> q]

\* str.lower(); on None it raises AttributeError
Lower(x) ==
    CASE x = "Python"      -> "python"
      [] x = "Art"         -> "art"
      [] x = "Easy"        -> "easy"
      [] x = "Tech"        -> "tech"
      [] x = "Technology"  -> "technology"
      [] x = "Business"    -> "business"
      [] x = "Python Basics" -> "python basics"
      [] x = "Selling"     -> "selling"
      [] OTHER             -> x
LowerRaises(x) == x = None

\* bool(os.environ.get("OPENAI_API_KEY"))
_check_openai_availability(api_key) == api_key \notin {None, ""}

\* The first n elements of a list: list[:n]
Prefix(list, n) == SubSeq(list, 1, IF n < Len(list) THEN n ELSE Len(list))

\* QuizGenerator._get_template_questions, for lower-cased arguments
_get_template_questions(topic, difficulty) ==
    IF topic = "python"
    THEN <<"py1", "py2", "py3", "py4">>
    ELSE <<"default">>

\* The question built from a template at index i (from 0)
TemplateQuestion(template_q, i, quiz_type) ==
    [question |-> template_q,
     type     |-> IF quiz_type = "True/False" \/ (quiz_type = "Mixed" /\ i % 2 = 0)
                  THEN "true_false" ELSE "multiple_choice"]

\* QuizGenerator._generate_template_quiz: the quiz, or that it raised
TemplateLabel == "template"

_generate_template_quiz(quiz_id, topic, difficulty, num_questions, quiz_type) ==
    IF LowerRaises(topic) \/ LowerRaises(difficulty)
    THEN [raised |-> TRUE, quiz |-> None]
    ELSE LET template_questions ==
                 Prefix(_get_template_questions(Lower(topic), Lower(difficulty)),
                        num_questions)
             selected == [i \in 1..Len(template_questions) |->
                             TemplateQuestion(template_questions[i], i - 1, quiz_type)]
         IN [raised |-> FALSE,
             quiz   |-> [quiz_id       |-> quiz_id,
                         topic         |-> topic,
                         difficulty    |-> difficulty,
                         num_questions |-> Len(selected),
                         quiz_type     |-> quiz_type,
                         questions     |-> selected,
                         created_at    |-> Timestamp,
                         generated_by  |-> TemplateLabel]]

\* The try block of QuizGenerator._generate_ai_quiz: the quiz, or that it raised
AiAttempt(quiz_id, llm, topic, difficulty, num_questions, quiz_type) ==
    IF LowerRaises(difficulty) \/ llm \in {"raises", "bad_json", "not_object"}
    THEN [raised |-> TRUE, quiz |-> None]
    ELSE [raised |-> FALSE,
          quiz   |-> [quiz_id       |-> quiz_id,
                      topic         |-> topic,
                      difficulty    |-> difficulty,
                      num_questions |-> num_questions,
                      quiz_type     |-> quiz_type,
                      questions     |-> IF llm = "questions"
                                        THEN <<[question |-> "ai1",
                                                type |-> "multiple_choice"]>>
                                        ELSE <<>>,
                      created_at    |-> Timestamp,
                      generated_by  |-> "ai"]]

\* if has_openai: return self._generate_ai_quiz(...)
TakesAiPath(api_key) == _check_openai_availability(api_key)

\* except Exception: return self._generate_template_quiz(...)
FallbackNone(quiz_id, topic, difficulty, num_questions, quiz_type) ==
    [raised |-> TRUE, quiz |-> None]
Fallback(quiz_id, topic, difficulty, num_questions, quiz_type) ==
    _generate_template_quiz(quiz_id, topic, difficulty, num_questions, quiz_type)

\* QuizGenerator.generate_quiz: the quiz stored and returned, or that the
\* guard of generate_quiz caught an exception (and None is returned)
generate_quiz(quiz_id, api_key, llm, topic, difficulty, num_questions, quiz_type) ==
    LET ai == AiAttempt(quiz_id, llm, topic, difficulty, num_questions, quiz_type)
    IN IF TakesAiPath(api_key)
       THEN IF ai.raised
            THEN Fallback(quiz_id, topic, difficulty, num_questions, quiz_type)
            ELSE ai
       ELSE _generate_template_quiz(quiz_id, topic, difficulty, num_questions,
                                    quiz_type)

GenerateQuiz(api_key, llm, topic, difficulty, num_questions, quiz_type) ==
    /\ focus = "quiz"
    /\ Cardinality(DOMAIN quizzes) < MaxQuizzes
    /\ LET made == generate_quiz(nextId, api_key, llm, topic, difficulty,
                                 num_questions, quiz_type)
           quiz == made.quiz
       IN IF made.raised
          THEN /\ ret' = Call("generate_quiz", NoneV)
               /\ UNCHANGED <<quizzes, quizzesFile, faults, nextId>>
          ELSE /\ quizzes' = SetItem(quizzes, quiz.quiz_id, quiz)
               /\ nextId' = nextId + 1
               /\ \E w \in WriteFile(quizzesFile, quizzes', faults) :
                      /\ quizzesFile' = w.file
                      /\ faults' = w.budget
               /\ ret' = Call("generate_quiz", QuizV(quiz))
    /\ UNCHANGED <<focus, today, authVars, fileUsers, courseVars, progressVars,
                   session_user, dbVars, recVars, activeDays, otherUsers>>

QuizNext ==
    \E api_key \in ApiKeys, llm \in LlmReplies, topic \in TopicArgs,
       difficulty \in DifficultyArgs, num_questions \in NumQuestionArgs,
       quiz_type \in QuizTypeArgs :
        GenerateQuiz(api_key, llm, topic, difficulty, num_questions, quiz_type)

(***************************************************************************)
(* Recommendations: CourseManager.get_recommended_courses and              *)
(* AIEngine.get_personalized_recommendations.  Scores are kept in          *)
(* hundredths (a rating of 4.5 is 450) and a confidence in thousandths     *)
(* (1.0 is 1000), so that the arithmetic is exact.                         *)
(***************************************************************************)
TopN == 10

\* needle in text, for lower-case strings
Contains(text, needle) ==
    \/ needle = text
    \/ <<needle, text>> \in {<<"tech", "technology">>,
                             <<"python", "python basics">>}

CourseRecord(i) ==
    [course_id       |-> "c" \o ToString(i),
     title           |-> IF i % 2 = 1 THEN "Python Basics" ELSE "Selling",
     category        |-> IF i % 2 = 1 THEN "Technology" ELSE "Business",
     difficulty      |-> IF i % 3 = 0 THEN "Intermediate" ELSE "Beginner",
     estimated_hours |-> IF i % 4 < 2 THEN 20 ELSE 60,
     rating          |-> CASE i % 3 = 0 -> 0
                           [] i % 3 = 1 -> 450
                           [] OTHER     -> 100,
     tags            |-> CASE i % 4 = 0 -> <<"python", "visualization">>
                           [] i % 4 = 1 -> <<"python">>
                           [] OTHER     -> <<>>]

\* courses.json with two courses, and with more courses than a
\* recommendation list may hold
SampleCourses == [i \in 1..2 |-> CourseRecord(i)]
ManyCourses   == [i \in 1..(TopN + 2) |-> CourseRecord(i)]

InterestArgs == {<<>>, <<"Tech">>, <<"Python", "Tech">>}
DifficultyPreferences == {"Beginner", "Mixed"}
LearningStyles == {"Visual", "Auditory"}
ExcludeArgs == {None, <<"c1", "c4">>}

\* The number of tags an interest is part of
RECURSIVE CountTags(_, _)
CountTags(tags, interest) ==
    IF tags = <<>> THEN 0
    ELSE (IF Contains(Lower(Head(tags)), Lower(interest)) THEN 1 ELSE 0)
         + CountTags(Tail(tags), interest)

\* recommendations.sort(key=..., reverse=True): a stable sort, largest first
RECURSIVE InsertByKey(_, _, _)
InsertByKey(sorted, x, key) ==
    IF sorted = <<>> THEN <<x>>
    ELSE IF Head(sorted)[key] >= x[key]
         THEN <<Head(sorted)>> \o InsertByKey(Tail(sorted), x, key)
         ELSE <<x>> \o sorted

RECURSIVE SortedDescending(_, _)
KeptOrder(list, key) == list
SortedDescending(list, key) ==
    IF list = <<>> THEN <<>>
    ELSE InsertByKey(SortedDescending(SubSeq(list, 1, Len(list) - 1), key),
                     list[Len(list)], key)

\* recommendations[:10]
Top(list) == Prefix(list, TopN)

\* if course['course_id'] in exclude_enrolled: continue
Excluded(course, excluded) == InList(course.course_id, excluded)

RECURSIVE CourseManagerScored(_, _, _, _)
RECURSIVE InterestScore(_, _)

\* the interest loop of get_recommended_courses
InterestScore(course, user_interests) ==
    IF user_interests = <<>> THEN 0
    ELSE (IF CountTags(course.tags, Head(user_interests)) > 0 THEN 200 ELSE 0)
         + (IF Contains(Lower(course.category), Lower(Head(user_interests)))
            THEN 300 ELSE 0)
         + InterestScore(course, Tail(user_interests))

\* the score get_recommended_courses gives a course
recommendation_score(course, user_interests, user_difficulty) ==
    InterestScore(course, user_interests)
    + (IF course.difficulty = user_difficulty THEN 100
       ELSE IF user_difficulty = "Mixed" THEN 50 ELSE 0)
    + (course.rating \div 2)

\* the loop of get_recommended_courses over self.courses.values()
CourseManagerScored(list, user_interests, user_difficulty, excluded) ==
    IF list = <<>> THEN <<>>
    ELSE LET course == Head(list)
             score == recommendation_score(course, user_interests, user_difficulty)
             rest == CourseManagerScored(Tail(list), user_interests,
                                         user_difficulty, excluded)
         IN IF Excluded(course, excluded) \/ ~(score > 0)
            THEN rest
            ELSE <<[course_id |-> course.course_id,
                    category |-> course.category,
                    difficulty |-> course.difficulty,
                    rating |-> course.rating,
                    recommendation_score |-> score]>> \o rest

\* CourseManager.get_recommended_courses
get_recommended_courses(store, user_interests, user_difficulty, exclude_enrolled) ==
    LET excluded == IF exclude_enrolled = None THEN <<>> ELSE exclude_enrolled
    IN Top(SortedDescending(
              CourseManagerScored(store, user_interests, user_difficulty, excluded),
              "recommendation_score"))

GetRecommendedCourses(user_interests, user_difficulty, exclude_enrolled) ==
    /\ focus = "recommend"
    /\ ret' = CallWith("get_recommended_courses",
                       [user_interests   |-> user_interests,
                        user_difficulty  |-> user_difficulty,
                        exclude_enrolled |-> exclude_enrolled],
                       ListV(get_recommended_courses(courses, user_interests,
                                                     user_difficulty,
                                                     exclude_enrolled)))
    /\ UNCHANGED <<focus, faults, today, nextId, authVars, fileUsers, courseVars,
                   progressVars, session_user, dbVars, restVars>>

\* the interest loop of AIEngine._calculate_recommendation_score
RECURSIVE AiInterestScore(_, _)
AiInterestScore(course, user_interests) ==
    IF user_interests = <<>> THEN 0
    ELSE LET interest == Lower(Head(user_interests))
         IN (IF Contains(Lower(course.category), interest) THEN 300 ELSE 0)
            + 200 * CountTags(course.tags, interest)
            + (IF Contains(Lower(course.title), interest) THEN 100 ELSE 0)
            + AiInterestScore(course, Tail(user_interests))

\* AIEngine._calculate_recommendation_score
_calculate_recommendation_score(course, preferences, interactions) ==
    LET category_interactions ==
            IF "categories" \in DOMAIN interactions
            THEN interactions.categories ELSE EmptyDict
    IN course.rating * 2
       + AiInterestScore(course, preferences.interests)
       + (IF course.difficulty = preferences.difficulty_preference THEN 200
          ELSE IF preferences.difficulty_preference = "Mixed" THEN 100 ELSE 0)
       + (IF preferences.learning_style = "Visual"
             /\ InList("visualization", course.tags) THEN 100
          ELSE IF preferences.learning_style = "Kinesthetic"
                  /\ InList("hands-on", course.tags) THEN 100 ELSE 0)
       + (CASE preferences.study_time = "15-30 minutes"
                  /\ course.estimated_hours <= 15 -> 100
            [] preferences.study_time = "30-60 minutes"
                  /\ 15 < course.estimated_hours /\ course.estimated_hours <= 30 -> 100
            [] preferences.study_time = "1-2 hours"
                  /\ 30 < course.estimated_hours /\ course.estimated_hours <= 50 -> 100
            [] preferences.study_time = "2+ hours"
                  /\ course.estimated_hours > 50 -> 100
            [] OTHER -> 0)
       + (IF course.rating >= 450 THEN 50 ELSE 0)
       + (IF course.category \in DOMAIN category_interactions
          THEN category_interactions[course.category] * 10 ELSE 0)

\* AIEngine._generate_recommendation_reason
_generate_recommendation_reason(course, preferences) ==
    IF \E i \in 1..Len(preferences.interests) :
           Contains(Lower(course.category), Lower(preferences.interests[i]))
    THEN "interest"
    ELSE IF course.difficulty = preferences.difficulty_preference THEN "difficulty"
    ELSE IF course.rating >= 450 THEN "rating"
    ELSE "default"

\* 'confidence': min(score / 10.0, 1.0), in thousandths
Confidence(score) == IF score < 1000 THEN score ELSE 1000

\* the loop of get_personalized_recommendations over all_courses
RECURSIVE AiScored(_, _, _, _)
AiScored(list, preferences, interactions, enrolled_courses) ==
    IF list = <<>> THEN <<>>
    ELSE LET course == Head(list)
             score == _calculate_recommendation_score(course, preferences,
                                                      interactions)
             rest == AiScored(Tail(list), preferences, interactions,
                              enrolled_courses)
         IN IF Excluded(course, enrolled_courses) \/ ~(score > 0)
            THEN rest
            ELSE <<[course_id  |-> course.course_id,
                    confidence |-> Confidence(score),
                    reason     |-> _generate_recommendation_reason(course,
                                                                   preferences)]>>
                 \o rest

PreferenceArgs ==
    [interests : InterestArgs,
     difficulty_preference : DifficultyPreferences,
     learning_style : LearningStyles,
     study_time : {"30-60 minutes"}]

\* The enrollments a CourseManager built now holds for a user
LoadedEnrollments(user_id) ==
    IF enrollmentsFile.st = "ok" /\ user_id \in DOMAIN enrollmentsFile.data
    THEN enrollmentsFile.data[user_id] ELSE <<>>

\* AIEngine.get_personalized_recommendations
GetPersonalizedRecommendations(preferences) ==
    /\ focus = "recommend"
    /\ IF enrollmentsFile.st = "corrupt"
       THEN \* CourseManager() raises, the guard returns []
            /\ ret' = CallWith("get_personalized_recommendations",
                                [user_id |-> session_user,
                                 preferences |-> preferences],
                                ListV(<<>>))
            /\ UNCHANGED <<recommendations_cache, recommendationsFile, faults>>
       ELSE LET interactions == IF session_user \in DOMAIN user_interactions
                                THEN user_interactions[session_user] ELSE EmptyDict
                recommendations ==
                    SortedDescending(
                        AiScored(courses, preferences, interactions,
                                 LoadedEnrollments(session_user)),
                        "confidence")
            IN /\ recommendations_cache' =
                      SetItem(recommendations_cache, session_user,
                              [recommendations  |-> Top(recommendations),
                               generated_at     |-> Timestamp,
                               preferences_hash |-> <<"hash", preferences>>])
               /\ \E w \in WriteFile(recommendationsFile, recommendations_cache',
                                     faults) :
                      /\ recommendationsFile' = w.file
                      /\ faults' = w.budget
               /\ ret' = CallWith("get_personalized_recommendations",
                                   [user_id |-> session_user,
                                    preferences |-> preferences],
                                   ListV(Top(recommendations)))
    /\ UNCHANGED <<focus, today, nextId, authVars, fileUsers, courseVars,
                   progressVars, session_user, dbVars, quizVars, courses,
                   user_interactions, activeDays, otherUsers>>

RecommendNext ==
    \/ \E i \in InterestArgs, d \in DifficultyPreferences, x \in ExcludeArgs :
           GetRecommendedCourses(i, d, x)
    \/ \E preferences \in PreferenceArgs :
           GetPersonalizedRecommendations(preferences)

(***************************************************************************)
(* Construction.  app.main() builds every manager anew on each run of the  *)
(* script, so a manager is loaded from the files an earlier one wrote.     *)
(* _load_users / _load_data guard FileNotFoundError only.                  *)
(***************************************************************************)
\* AuthManager.__init__ -> _load_users
NewAuthManager ==
    /\ focus = "auth"
    /\ CASE usersFile.st = "ok" ->
              /\ users' = usersFile.data
              /\ ret' = Call("AuthManager", NoneV)
              /\ UNCHANGED <<usersFile, faults>>
         [] usersFile.st = "missing" ->
              /\ users' = EmptyDict
              /\ SaveUsers(EmptyDict)
              /\ ret' = Call("AuthManager", NoneV)
         [] OTHER ->
              /\ ret' = Call("AuthManager", RaisedV)
              /\ UNCHANGED <<users, usersFile, faults>>
    /\ UNCHANGED <<focus, today, nextId, fileUsers, courseVars, progressVars,
                   session_user, dbVars, restVars>>

\* CourseManager.__init__ -> _load_data (the enrollments file)
NewCourseManager ==
    /\ focus = "course"
    /\ CASE enrollmentsFile.st = "ok" ->
              /\ enrollments' = enrollmentsFile.data
              /\ ret' = Call("CourseManager", NoneV)
         [] enrollmentsFile.st = "missing" ->
              /\ enrollments' = EmptyDict
              /\ ret' = Call("CourseManager", NoneV)
         [] OTHER ->
              /\ ret' = Call("CourseManager", RaisedV)
              /\ enrollments' = enrollments
    /\ UNCHANGED <<focus, faults, today, nextId, authVars, fileUsers,
                   enrollmentsFile, progressVars, session_user, dbVars, restVars>>

(***************************************************************************)
(* Specification                                                           *)
(***************************************************************************)
\* A user registered before this session: alice, with password "pw1".
Alice ==
    [user_id |-> 1, username |-> "alice", email |-> "a@x",
     password_hash |-> _hash_password("pw1"), preferences |-> "visual",
     created_at |-> Timestamp, last_login |-> None, is_active |-> TRUE]
AliceOnFile == DelItem(DelItem(Alice, "last_login"), "is_active")

Focuses == {"auth", "file", "course", "progress", "db", "quiz", "recommend",
            "streak"}

InitStores ==
    /\ focus \in Focuses
    /\ today = 0
    /\ nextId = 2
    /\ ret = Call("init", NoneV)
    /\ users = SetItem(EmptyDict, "alice", Alice)
    /\ usersFile = FileOk(users)
    /\ fileUsers \in (IF focus = "file"
                      THEN {FileOk(EmptyDict), FileOk(SetItem(EmptyDict, 1, AliceOnFile))}
                      ELSE {FileOk(EmptyDict)})
    /\ enrollments \in (IF focus = "recommend"
                        THEN {EmptyDict, SetItem(EmptyDict, 1, <<"c1", "c4">>)}
                        ELSE {EmptyDict})
    /\ enrollmentsFile = FileOk(enrollments)
    /\ user_progress = EmptyDict
    /\ progressFile = FileOk(EmptyDict)
    /\ user_achievements = EmptyDict
    /\ achievementsFile = FileOk(EmptyDict)
    /\ session_user = 1
    /\ engine \in (IF focus = "db" THEN {"none", "up"} ELSE {"none"})
    /\ dbEnrollments = <<>>
    /\ quizzes = EmptyDict
    /\ quizzesFile = FileOk(EmptyDict)
    /\ courses \in (IF focus = "recommend"
                    THEN {SampleCourses, ManyCourses}
                    ELSE {SampleCourses})
    /\ user_interactions =
          (IF focus = "recommend"
           THEN SetItem(EmptyDict, 1, [categories |-> SetItem(EmptyDict, "Business", 3)])
           ELSE EmptyDict)
    /\ recommendations_cache = EmptyDict
    /\ recommendationsFile = FileOk(EmptyDict)
    /\ activeDays = {}
    /\ otherUsers = users

Init == InitStores /\ faults = 0

Next ==
    \/ AuthNext
    \/ FileNext
    \/ CourseNext
    \/ ProgressNext
    \/ DbNext
    \/ QuizNext
    \/ RecommendNext
    \/ StreakNext

Spec == Init /\ [][Next]_vars

\* The user and course managers in an environment whose file writes may
\* fail, with the managers rebuilt from the files between operations.
InitFaults ==
    /\ InitStores
    /\ focus \in {"auth", "file", "course"}
    /\ faults = MaxFaults

NextFaults ==
    \/ AuthNext
    \/ FileNext
    \/ CourseNext
    \/ NewAuthManager
    \/ NewCourseManager

SpecFaults == InitFaults /\ [][NextFaults]_vars

\* Two sessions, each with an AuthManager of its own loaded from the same
\* data/users.json; their calls interleave call by call.  `users` is the
\* memory of the manager the next call goes to, `otherUsers` that of the
\* other one.
SwitchSession ==
    /\ focus = "auth"
    /\ users' = otherUsers
    /\ otherUsers' = users
    /\ ret' = Call("switch_session", NoneV)
    /\ UNCHANGED <<focus, faults, today, nextId, usersFile, fileUsers, courseVars,
                   progressVars, session_user, dbVars, quizVars, recVars,
                   activeDays>>

InitShared ==
    /\ InitStores
    /\ focus = "auth"
    /\ faults = 0

NextShared ==
    \/ \E username \in Usernames, password \in Passwords :
           CreateUser(username, "b@x", password, "visual")
    \/ \E user_id \in UserIdArgs, preferences \in Preferences :
           UpdateUserPreferences(user_id, preferences)
    \/ SwitchSession

SpecShared == InitShared /\ [][NextShared]_vars

(***************************************************************************)
(* Properties                                                              *)
(***************************************************************************)
\* The user ids the user store knows.
RegisteredIds == {users[u].user_id : u \in DOMAIN users}

NoDuplicates(list) ==
    \A i, j \in 1..Len(list) : list[i] = list[j] => i = j

\* C1: create_user with a username that already belongs to a stored user
\* returns None and leaves the user store as it was (AuthManager: memory and
\* file; FileUserManager: the file), so the existing record is not
\* overwritten and no record is added.
C1_DuplicateUsernameRejected ==
    [][\A u \in Usernames, e \in Emails, p \in Passwords, pr \in Preferences :
          /\ (CreateUser(u, e, p, pr) /\ u \in DOMAIN users)
                => (ret'.val = NoneV /\ users' = users /\ usersFile' = usersFile)
          /\ (FileCreateUser(u, e, p, pr)
                /\ \E id \in DOMAIN LoadFileUsers : LoadFileUsers[id].username = u)
                => (ret'.val = NoneV /\ fileUsers' = fileUsers)]_vars

\* A create_user call was refused while both usernames were taken.
C1_Witness ==
    /\ ret = Call("create_user", NoneV)
    /\ focus = "auth"
    /\ DOMAIN users = Usernames

\* C2: enrolling a user in a course the user is already enrolled in returns
\* False and changes nothing in CourseManager and in ProgressTracker, adds no
\* row in DatabaseManager, and no store ever lists a (user, course) pair twice.
C2_NoPairTwice ==
    /\ \A u \in DOMAIN enrollments : NoDuplicates(enrollments[u])
    /\ \A u \in DOMAIN user_progress : NoDuplicates(user_progress[u].enrolled_courses)
    /\ NoDuplicates(dbEnrollments)

C2_SecondEnrollmentIsNoOp ==
    /\ []C2_NoPairTwice
    /\ [][/\ \A id \in UserIdArgs, c \in CourseIdArgs :
               /\ (EnrollUser(id, c) /\ id \in DOMAIN enrollments
                     /\ InList(c, enrollments[id]))
                     => (ret'.val = BoolV(FALSE) /\ UNCHANGED courseVars)
               /\ (DbEnrollUser(id, c) /\ InList(<<id, c>>, dbEnrollments))
                     => (dbEnrollments' = dbEnrollments)
          /\ \A c \in TrackedCourseArgs :
               (EnrollInCourse(c) /\ session_user \in DOMAIN user_progress
                  /\ InList(c, user_progress[session_user].enrolled_courses))
                  => (ret'.val = BoolV(FALSE) /\ UNCHANGED progressVars)]_vars

\* The tracker refused a second enrollment of a user enrolled in two courses.
C2_Witness ==
    /\ ret = Call("enroll_in_course", BoolV(FALSE))
    /\ session_user \in DOMAIN user_progress
    /\ Len(user_progress[session_user].enrolled_courses) = 2

\* C3: in one user manager no two stored user records share a username and
\* no two share a user_id.
UniqueKeys(store) ==
    \A k1, k2 \in DOMAIN store :
        (store[k1].username = store[k2].username
           \/ store[k1].user_id = store[k2].user_id) => k1 = k2

C3_UniqueKeys ==
    /\ UniqueKeys(users)
    /\ \A u \in DOMAIN users : users[u].username = u
    /\ UniqueKeys(LoadFileUsers)
    /\ \A id \in DOMAIN LoadFileUsers : LoadFileUsers[id].user_id = id

\* FileUserManager holds two users, one of them after an account update.
C3_Witness ==
    /\ focus = "file"
    /\ Cardinality(DOMAIN LoadFileUsers) = 2
    /\ ret = Call("update_user_account", BoolV(TRUE))

\* C4: every course id stored for a user (CourseManager.enrollments and the
\* tracker's enrolled_courses, completed_courses, completed_lessons_by_course)
\* is a course of the catalog, and every user id that keys those stores is
\* the id of a stored user.
C4_ReferentialLinkage ==
    /\ \A u \in DOMAIN enrollments :
          /\ u \in RegisteredIds
          /\ \A i \in 1..Len(enrollments[u]) : enrollments[u][i] \in DOMAIN Catalog
    /\ \A u \in DOMAIN user_progress :
          /\ u \in RegisteredIds
          /\ \A i \in 1..Len(user_progress[u].enrolled_courses) :
                user_progress[u].enrolled_courses[i] \in DOMAIN Catalog
          /\ \A i \in 1..Len(user_progress[u].completed_courses) :
                user_progress[u].completed_courses[i] \in DOMAIN Catalog
          /\ DOMAIN user_progress[u].completed_lessons_by_course \subseteq DOMAIN Catalog

\* C5: authenticate_user returns a user record exactly when the username is
\* stored, the hash of the password equals the stored hash and the account
\* is active; otherwise it returns None and the user store (memory and
\* file, last_login included) is as before.
C5_AuthenticateIffCredentials ==
    [][\A u \in Usernames, p \in Passwords :
          AuthenticateUser(u, p) =>
             IF /\ u \in DOMAIN users
                /\ users[u].password_hash = _hash_password(p)
                /\ users[u].is_active
             THEN /\ ret'.val.kind = "user"
                  /\ ret'.val.user.username = u
                  /\ ret'.val.user.user_id = users[u].user_id
             ELSE /\ ret'.val = NoneV
                  /\ users' = users
                  /\ usersFile' = usersFile]_vars

\* A login failed although both usernames are stored and active: the
\* password was wrong.
C5_Witness ==
    /\ ret = Call("authenticate_user", NoneV)
    /\ DOMAIN users = Usernames
    /\ \A u \in DOMAIN users : users[u].is_active

\* C6: once deactivate_user(user_id) returned True the account of that id is
\* inactive, an inactive account stays stored and inactive under every
\* operation, and authenticate_user on an inactive account returns None for
\* every password.
C6_DeactivatedNeverAuthenticates ==
    [][/\ \A id \in UserIdArgs :
             (DeactivateUser(id) /\ ret'.val = BoolV(TRUE))
                => \E u \in DOMAIN users' :
                      users'[u].user_id = id /\ ~users'[u].is_active
       /\ \A u \in DOMAIN users :
             ~users[u].is_active
                => /\ u \in DOMAIN users'
                   /\ ~users'[u].is_active
                   /\ users'[u].user_id = users[u].user_id
       /\ \A u \in Usernames, p \in Passwords :
             (AuthenticateUser(u, p) /\ u \in DOMAIN users /\ ~users[u].is_active)
                => ret'.val = NoneV]_vars

\* A login was refused when every stored account had been deactivated.
C6_Witness ==
    /\ ret = Call("authenticate_user", NoneV)
    /\ DOMAIN users = Usernames
    /\ \A u \in DOMAIN users : ~users[u].is_active

\* C7: the records create_user, authenticate_user and get_user_by_id of
\* AuthManager return hold no password_hash, and every stored record still
\* holds its own.
C7_NoHashReturned ==
    /\ (focus = "auth" /\ ret.val.kind = "user")
          => "password_hash" \notin DOMAIN ret.val.user
    /\ \A u \in DOMAIN users : "password_hash" \in DOMAIN users[u]

\* get_user_by_id returned a record.
C7_Witness ==
    /\ ret.op = "get_user_by_id"
    /\ ret.val.kind = "user"
    /\ "password_hash" \notin DOMAIN ret.val.user

\* C8: update_user_account with an unknown user_id, or with a
\* current_password whose hash differs from the stored one, returns False
\* and leaves the user store as it was (AuthManager and FileUserManager).
C8_RejectedUpdateChangesNothing ==
    [][\A id \in UserIdArgs, e \in Emails, cur \in Passwords,
          new \in Passwords \cup NoPassword :
          /\ (UpdateUserAccount(id, e, cur, new)
                /\ \A u \in DOMAIN users :
                      users[u].user_id = id
                         => users[u].password_hash # _hash_password(cur))
                => (ret'.val = BoolV(FALSE) /\ users' = users /\ usersFile' = usersFile)
          /\ (FileUpdateUserAccount(id, e, cur, new)
                /\ (id \in DOMAIN LoadFileUsers
                      => LoadFileUsers[id].password_hash # _hash_password(cur)))
                => (ret'.val = BoolV(FALSE) /\ fileUsers' = fileUsers)]_vars

\* An account update was refused for a stored user: the password was wrong.
C8_Witness ==
    /\ ret = Call("update_user_account", BoolV(FALSE))
    /\ focus = "auth"
    /\ UserIdArgs \subseteq RegisteredIds

\* C9 as claimed: after update_user_account succeeds with a non-empty
\* new_password different from the old one, authenticate_user returns None
\* for the old password and the user for the new one; with an empty (or
\* None) new_password the stored hash is unchanged and the old password
\* authenticates.
UserOfId(store, id) == CHOOSE u \in DOMAIN store : store[u].user_id = id

C9_PasswordChangeTakesEffect ==
    [][\A id \in UserIdArgs, e \in Emails, cur \in Passwords,
          new \in Passwords \cup NoPassword :
          (UpdateUserAccount(id, e, cur, new) /\ ret'.val = BoolV(TRUE))
             => LET u == UserOfId(users', id)
                IN IF new \in NoPassword
                   THEN /\ users'[u].password_hash = users[u].password_hash
                        /\ authenticate_user(users', u, cur).val.kind = "user"
                   ELSE /\ authenticate_user(users', u, new).val.kind = "user"
                        /\ new # cur
                              => authenticate_user(users', u, cur).val = NoneV]_vars

\* C9 as amended: the same, for an account that is active; on a deactivated
\* account the update succeeds as well and authenticate_user returns None
\* for the old and for the new password.
C9_PasswordChangeTakesEffectIfActive ==
    [][\A id \in UserIdArgs, e \in Emails, cur \in Passwords,
          new \in Passwords \cup NoPassword :
          (UpdateUserAccount(id, e, cur, new) /\ ret'.val = BoolV(TRUE))
             => LET u == UserOfId(users', id)
                    old == authenticate_user(users', u, cur).val
                    fresh == authenticate_user(users', u, new).val
                IN /\ users'[u].is_active = users[u].is_active
                   /\ IF ~users[u].is_active
                      THEN old = NoneV /\ fresh = NoneV
                      ELSE IF new \in NoPassword
                      THEN /\ users'[u].password_hash = users[u].password_hash
                           /\ old.kind = "user"
                      ELSE /\ fresh.kind = "user"
                           /\ new # cur => old = NoneV
                   /\ new \in NoPassword
                         => users'[u].password_hash = users[u].password_hash]_vars

\* An account update succeeded and left alice with the hash of "pw2".
C9_Witness ==
    /\ ret = Call("update_user_account", BoolV(TRUE))
    /\ focus = "auth"
    /\ users["alice"].password_hash = _hash_password("pw2")
    /\ users["alice"].is_active

\* C10: no operation and no constructor lets an exception reach its caller.
C10_NoExceptionEscapes == ret.val.kind # "raised"

\* C11: generate_quiz falls back to the templates: when no API key is set,
\* or when the completion call or the reading of its answer raises, it
\* returns a quiz with generated_by = 'template' that is stored under its
\* quiz_id in the quizzes store (and, the write succeeding, in
\* quizzes.json); it returns None only when the template path raises.
C11_TemplateFallback ==
    [][focus = "quiz" =>
       \A k \in ApiKeys, llm \in LlmReplies, t \in TopicArgs, d \in DifficultyArgs,
          n \in NumQuestionArgs, qt \in QuizTypeArgs :
          GenerateQuiz(k, llm, t, d, n, qt) =>
             /\ ((k \in {None, ""} \/ llm \in {"raises", "bad_json", "not_object"})
                   /\ t # None /\ d # None)
                   => /\ ret'.val.kind = "quiz"
                      /\ ret'.val.quiz.generated_by = "template"
                      /\ ret'.val.quiz.quiz_id \in DOMAIN quizzes'
                      /\ quizzes'[ret'.val.quiz.quiz_id] = ret'.val.quiz
                      /\ ret'.val.quiz.quiz_id \notin DOMAIN quizzes
                      /\ \A id \in DOMAIN quizzes : quizzes'[id] = quizzes[id]
                      /\ quizzesFile' = FileOk(quizzes')
             /\ ret'.val = NoneV => (t = None \/ d = None)]_vars

\* A key was set, the completion call failed, and the quiz handed back and
\* stored is a template quiz.
C11_Witness ==
    /\ ret.op = "generate_quiz"
    /\ ret.val.kind = "quiz"
    /\ ret.val.quiz.generated_by = "template"
    /\ Cardinality(DOMAIN quizzes) = MaxQuizzes
    /\ \E id \in DOMAIN quizzes : quizzes[id].generated_by = "ai"

\* The list a call handed back holds no course of `excluded`, has at most
\* ten entries and is in non-increasing order of the field `key`.
RecommendationList(items, excluded, key) ==
    /\ \A i \in 1..Len(items) : ~InList(items[i].course_id, excluded)
    /\ Len(items) <= 10
    /\ \A i \in 1..Len(items), j \in 1..Len(items) :
          i < j => items[i][key] >= items[j][key]

\* C12: get_personalized_recommendations returns no course the user is
\* enrolled in, get_recommended_courses none of exclude_enrolled; both
\* return at most 10 entries in non-increasing order of confidence /
\* recommendation_score, and every confidence lies in (0, 1].
C12_RecommendationsFilteredSortedBounded ==
    /\ ret.op = "get_personalized_recommendations"
          => /\ RecommendationList(
                    ret.val.items,
                    IF ret.args.user_id \in DOMAIN enrollments
                    THEN enrollments[ret.args.user_id] ELSE <<>>,
                    "confidence")
             /\ \A i \in 1..Len(ret.val.items) :
                   /\ ret.val.items[i].confidence > 0
                   /\ ret.val.items[i].confidence <= 1000
    /\ ret.op = "get_recommended_courses"
          => RecommendationList(
                 ret.val.items,
                 IF ret.args.exclude_enrolled = None
                 THEN <<>> ELSE ret.args.exclude_enrolled,
                 "recommendation_score")

\* Ten recommendations came back for an enrolled user out of more than ten
\* courses, with different confidences among them.
C12_Witness ==
    /\ ret.op = "get_personalized_recommendations"
    /\ Len(ret.val.items) = 10
    /\ Len(courses) > 10
    /\ session_user \in DOMAIN enrollments
    /\ ret.val.items[1].confidence > ret.val.items[10].confidence

\* C13: update_daily_activity keeps streak_days by calendar day: on the day
\* of the previous activity the streak is unchanged, on the day after it the
\* streak grows by exactly 1, and after a gap of two or more days, or with
\* no previous activity, the streak is 1.
C13_StreakByCalendarDay ==
    [][focus = "streak" =>
       \A m \in StudyMinuteArgs :
          UpdateDailyActivity(m) =>
             LET known == session_user \in DOMAIN user_progress
                 previous == IF known THEN user_progress[session_user].last_activity
                             ELSE None
                 streak == IF known THEN user_progress[session_user].streak_days
                           ELSE 0
                 streak_after == user_progress'[session_user].streak_days
             IN IF previous = None THEN streak_after = 1
                ELSE IF DayOf(previous) = today THEN streak_after = streak
                ELSE IF DayOf(previous) = today - 1 THEN streak_after = streak + 1
                ELSE streak_after = 1]_vars

\* C14: after update_daily_activity was called on 7 consecutive days the
\* user holds 'week_streak', once, and its 150 points are in total_points.
C14_WeekStreakAwarded ==
    (/\ focus = "streak"
     /\ ret.op = "update_daily_activity"
     /\ today >= 6
     /\ \A d \in (today - 6)..today : d \in activeDays)
       => /\ session_user \in DOMAIN user_achievements
          /\ Cardinality({i \in 1..Len(user_achievements[session_user]) :
                 user_achievements[session_user][i].achievement_id = "week_streak"})
                = 1
          /\ user_progress[session_user].total_points >= 150

\* What the tracker holds for the session's user (the record of a user it
\* has not seen yet is the one get_user_progress creates).
ProgressOf(store) ==
    IF session_user \in DOMAIN store THEN store[session_user] ELSE NewProgress

\* The lessons of a course the user has completed.
CompletedIn(pr, course_id) ==
    IF course_id \in DOMAIN pr.completed_lessons_by_course
    THEN pr.completed_lessons_by_course[course_id] ELSE <<>>

\* C15: complete_lesson for a lesson that is already in the user's completed
\* list of the course returns False and changes nothing: counter, points,
\* time spent, course progress, level, last_activity, achievements, files.
C15_CompleteLessonIdempotent ==
    [][focus = "progress" =>
       \A c \in TrackedCourseArgs, l \in LessonIdArgs, m \in TimeSpentArgs :
          (CompleteLesson(c, l, m)
             /\ InList(l, CompletedIn(ProgressOf(user_progress), c)))
             => /\ ret'.val = BoolV(FALSE)
                /\ UNCHANGED progressVars]_vars

\* A lesson was completed a second time, on a later day and with time spent.
C15_Witness ==
    /\ ret = Call("complete_lesson", BoolV(FALSE))
    /\ today = 1
    /\ ProgressOf(user_progress).last_activity = "0"
    /\ ProgressOf(user_progress).completed_lessons = 2

\* The points of the achievements a user holds.
RECURSIVE AchievementTotal(_)
AchievementTotal(list) ==
    IF list = <<>> THEN 0 ELSE Head(list).points + AchievementTotal(Tail(list))

HeldBy(store) == IF session_user \in DOMAIN store THEN store[session_user] ELSE <<>>

\* C16: a course enters completed_courses, and the 500 points are added,
\* exactly once: at the first complete_lesson call after which the number of
\* completed lessons of the course reaches the number of its lessons; no
\* later complete_lesson or enroll_in_course adds the course or the bonus
\* again, and no call removes it.
C16_CompletionBonusOnce ==
    /\ [](NoDuplicates(ProgressOf(user_progress).completed_courses))
    /\ [][focus = "progress" =>
          LET before == ProgressOf(user_progress)
              after == ProgressOf(user_progress')
              awarded == AchievementTotal(HeldBy(user_achievements'))
                            - AchievementTotal(HeldBy(user_achievements))
          IN /\ \A c \in TrackedCourseArgs, l \in LessonIdArgs, m \in TimeSpentArgs :
                   (CompleteLesson(c, l, m) /\ ret'.val = BoolV(TRUE))
                      => LET reached == /\ get_course_lessons(c) # <<>>
                                        /\ Len(CompletedIn(after, c))
                                              >= Len(get_course_lessons(c))
                             first == reached /\ ~InList(c, before.completed_courses)
                         IN /\ after.completed_courses =
                                  IF first THEN Append(before.completed_courses, c)
                                  ELSE before.completed_courses
                            /\ after.total_points =
                                  before.total_points + LessonPoints + awarded
                                  + (IF first THEN 500 ELSE 0)
             /\ \A c \in TrackedCourseArgs :
                   EnrollInCourse(c)
                      => /\ after.completed_courses = before.completed_courses
                         /\ after.total_points = before.total_points + awarded
             /\ \A i \in 1..Len(before.completed_courses) :
                   /\ i <= Len(after.completed_courses)
                   /\ after.completed_courses[i] = before.completed_courses[i]]_vars

\* The lessons of a completed course were completed again after an
\* enrollment reset its list: 4 lessons, one bonus, two achievements.
C16_Witness ==
    /\ ret = Call("complete_lesson", BoolV(TRUE))
    /\ ProgressOf(user_progress).completed_courses = <<"c1">>
    /\ ProgressOf(user_progress).completed_lessons = 4
    /\ Len(CompletedIn(ProgressOf(user_progress), "c1")) = 2
    /\ ProgressOf(user_progress).total_points = 4 * 20 + 500 + 100 + 50

\* C17: no update is lost when two managers loaded from the same file
\* interleave their operations: after every finished operation users.json
\* holds every user either session created, and no username was created by
\* both sessions (the two managers know it under one user_id).
C17_NoLostUpdate ==
    /\ usersFile.st = "ok"
    /\ \A u \in DOMAIN users \cup DOMAIN otherUsers : u \in DOMAIN usersFile.data
    /\ \A u \in DOMAIN users \cap DOMAIN otherUsers :
          users[u].user_id = otherUsers[u].user_id

\* C18: when a mutating operation reports success (create_user returns a
\* user, update_user_account or enroll_user returns True) the backing JSON
\* file holds the in-memory store; a failed write is not reported as success.
C18_SuccessMeansPersisted ==
    /\ (focus = "auth"
          /\ \/ ret.op = "create_user" /\ ret.val.kind = "user"
             \/ ret = Call("update_user_account", BoolV(TRUE)))
          => usersFile = FileOk(users)
    /\ (focus = "file"
          /\ \/ ret.op = "create_user" /\ ret.val.kind = "user"
             \/ ret = Call("update_user_account", BoolV(TRUE)))
          => fileUsers.st = "ok"
    /\ (focus = "course" /\ ret = Call("enroll_user", BoolV(TRUE)))
          => enrollmentsFile = FileOk(enrollments)

=============================================================================
